---- MODULE Spec2Model ----
(***************************************************************************)
(* CodeFileGenerator (Source/ArticyEditor/Private/CodeGeneration/          *)
(* CodeFileGenerator.cpp): a text emitter that tracks indentation and open *)
(* blocks, and WriteToFile, which writes the generated text to disk and    *)
(* talks to source control.                                                *)
(*                                                                         *)
(* Strings are sequences of one-character strings, so that concatenation,  *)
(* EndsWith and the comparison of the generated text with the file content *)
(* are computed character by character.                                    *)
(***************************************************************************)
EXTENDS Integers, Sequences, FiniteSets, TLC

VARIABLES
    FileContent,   \* CodeFileGenerator::FileContent, the text buffer
    IndentCount,   \* CodeFileGenerator::IndentCount
    BlockCount,    \* CodeFileGenerator::BlockCount
    Path,          \* CodeFileGenerator::Path, the target file
    Log,           \* the UE_LOG(LogArticyEditor, ...) output, oldest first
    disk,          \* the platform file system: Paths -> file
    scEnabled,     \* ISourceControlModule::IsEnabled()
    usesCheckout,  \* ISourceControlProvider::UsesCheckout()
    nOps,          \* number of operations issued so far
    lastOp,        \* history: name of the operation that produced this state
    args,          \* history: the arguments and environment answers of lastOp
    pre,           \* history: the state lastOp started from
    calls,         \* history: the external calls made by the last WriteToFile
    result,        \* history: the return taken by the last WriteToFile
    netIndent,     \* history: net of the indent-affecting operations issued
    open,          \* history: the StartBlock calls not yet closed, innermost last
    closed,        \* history: the block the last EndBlock closed
    suppressed,    \* history: some call moved the indent without a block, or
                   \* a block without the indent
    returned       \* history: the string the last SplitName call returned

vars == <<FileContent, IndentCount, BlockCount, Path, Log, disk, scEnabled,
          usesCheckout, nOps, lastOp, args, pre, calls, result, netIndent,
          open, closed, suppressed, returned>>

-----------------------------------------------------------------------------
(* Bounds *)

\* operations per behaviour of SpecEmit, Spec and SpecBlocks
MaxOps == 3

MaxCommitOps == 3

MaxBlockOps == 5

\* length of the names enumerated for SplitName
MaxNameLen == 3

\* operations per behaviour of SpecVariable
MaxVarOps == 2

\* operations per behaviour of SpecClass
MaxClassOps == 3

\* operations per behaviour of SpecFrame
MaxFrameOps == 2

-----------------------------------------------------------------------------
(* Inputs *)

Paths == {"A.h", "B.h"}

\* texts handed to Line, the empty text of Line() included
Texts == {<<>>, <<"x">>}

\* texts handed to AccessModifier, with and without the trailing colon
ModifierTexts == {<<"p">>, <<"p", ":">>}

\* texts handed to Line when the document is built for WriteToFile
CommitTexts == {<<"x">>, <<"y">>}

IndentOffsets == {-1, 0, 1}

NoFile == [exists |-> FALSE, content |-> <<>>]

File(content) == [exists |-> TRUE, content |-> content]

\* what a target path holds before generation runs
InitialFiles == {NoFile, File(<<"x", "\n">>)}

\* the characters names are enumerated over: upper case, lower case, space
NameChars == {"D", "N", "a", " "}

RECURSIVE StringsUpTo(_, _)
StringsUpTo(chars, n) ==
    IF n = 0 THEN {<<>>}
    ELSE LET shorter == StringsUpTo(chars, n - 1)
         IN  shorter \cup {Append(w, c) : w \in shorter, c \in chars}

DisplayName == <<"D", "i", "s", "p", "l", "a", "y", "N", "a", "m", "e">>

Names == StringsUpTo(NameChars, MaxNameLen) \cup {DisplayName}

Greeting ==
    <<"G", "r", "e", "e", "t", "i", "n", "g">>

\* declared types: the localized text type, the same in lower case, another
VarTypes == {<<"F", "T", "e", "x", "t">>, <<"f", "t", "e", "x", "t">>,
             <<"i", "n", "t", "3", "2">>}

\* declared names: free, reserved, reserved in lower case
VarNames == {Greeting, DisplayName, <<"T", "e", "x", "t">>,
             <<"t", "e", "x", "t">>, <<"B", "a", "r">>}

\* default value and comment of a declaration: both absent or both given
VarExtras == {[value |-> <<>>, comment |-> <<>>],
              [value |-> <<"0">>, comment |-> <<"c">>]}

VarSpecifiers == <<"E">>

\* FApp::GetProjectName()
ProjectName == <<"g", "a", "m", "e">>

Foo ==
    <<"F", "o", "o">>

Int32Type ==
    <<"i", "n", "t", "3", "2">>

Bar ==
    <<"B", "a", "r">>

\* comments handed to StartClass and StartStruct: none or one
ClassComments == {<<>>, <<"c">>}

\* inline declaration names handed to EndStruct: none or one
InlineDeclarations == {<<>>, <<"v">>}

-----------------------------------------------------------------------------
(* The generator object as a value *)

Self ==
    [FileContent |-> FileContent, IndentCount |-> IndentCount,
     BlockCount |-> BlockCount, Log |-> Log]

\* default arguments of Line(Line = "", bSemicolon = false, bIndent = true, IndentOffset = 0)
DefaultSemicolon == FALSE

DefaultIndent == TRUE

DefaultIndentOffset == 0

Max(a, b) == IF a >= b THEN a ELSE b

\* occurrences of the character c in seq
Count(seq, c) == Cardinality({i \in DOMAIN seq : seq[i] = c})

EndsWith(s, suffix) ==
    /\ Len(s) >= Len(suffix)
    /\ SubSeq(s, Len(s) - Len(suffix) + 1, Len(s)) = suffix

\* for(int i = 0; i < IndentCount + IndentOffset; ++i) FileContent += "\t"
RECURSIVE IndentTabs(_, _)
IndentTabs(i, n) == IF i < n THEN <<"\t">> \o IndentTabs(i + 1, n) ELSE <<>>

\* Line with the indent offset dropped
Line_IgnoreOffset(d, text, bSemicolon, bIndent, IndentOffset) ==
    LET tabs == IF bIndent THEN IndentTabs(0, d.IndentCount) ELSE <<>>
        semi == IF bSemicolon THEN <<";">> ELSE <<>>
    IN  [d EXCEPT !.FileContent = @ \o tabs \o text \o semi \o <<"\n">>]

Line(d, text, bSemicolon, bIndent, IndentOffset) ==
    LET tabs == IF bIndent THEN IndentTabs(0, d.IndentCount + IndentOffset) ELSE <<>>
        semi == IF bSemicolon THEN <<";">> ELSE <<>>
    IN  [d EXCEPT !.FileContent = @ \o tabs \o text \o semi \o <<"\n">>]

Comment(d, text) ==
    Line(d, <<"/", "*", "*", " ">> \o text \o <<" ", "*", "/">>,
         DefaultSemicolon, DefaultIndent, DefaultIndentOffset)

AccessModifier(d, text) ==
    Line(d, text \o (IF EndsWith(text, <<":">>) THEN <<>> ELSE <<":">>),
         FALSE, TRUE, -1)

PushIndent(d) == [d EXCEPT !.IndentCount = @ + 1]

PopIndent(d) ==
    IF d.IndentCount = 0
    THEN [d EXCEPT !.Log = Append(@, "Indent underflow")]
    ELSE [d EXCEPT !.IndentCount = @ - 1]

\* StartBlock that never pushes the indent
StartBlock_NoPush(d, bIndent) ==
    Line([d EXCEPT !.BlockCount = @ + 1], <<"{">>,
         DefaultSemicolon, DefaultIndent, DefaultIndentOffset)

\* StartBlock that pushes the indent before it emits the opening line
StartBlock_PushFirst(d, bIndent) ==
    LET d1 == [d EXCEPT !.BlockCount = @ + 1]
        d2 == IF bIndent THEN PushIndent(d1) ELSE d1
    IN  Line(d2, <<"{">>, DefaultSemicolon, DefaultIndent, DefaultIndentOffset)

StartBlock(d, bIndent) ==
    LET d1 == [d EXCEPT !.BlockCount = @ + 1]
        d2 == Line(d1, <<"{">>, DefaultSemicolon, DefaultIndent, DefaultIndentOffset)
    IN  IF bIndent THEN PushIndent(d2) ELSE d2

\* EndBlock that never pops the indent
EndBlock_NoPop(d, bUnindent, bSemicolon) ==
    LET d1 == IF d.BlockCount = 0
              THEN [d EXCEPT !.Log = Append(@, "Block end missmatch!")]
              ELSE [d EXCEPT !.BlockCount = @ - 1]
    IN  Line(d1, <<"}">>, bSemicolon, DefaultIndent, DefaultIndentOffset)

\* EndBlock that emits the closing line before it pops the indent
EndBlock_PopLast(d, bUnindent, bSemicolon) ==
    LET d1 == IF d.BlockCount = 0
              THEN [d EXCEPT !.Log = Append(@, "Block end missmatch!")]
              ELSE [d EXCEPT !.BlockCount = @ - 1]
        d2 == Line(d1, <<"}">>, bSemicolon, DefaultIndent, DefaultIndentOffset)
    IN  IF bUnindent THEN PopIndent(d2) ELSE d2

\* EndBlock without the BlockCount == 0 test
EndBlock_Unchecked(d, bUnindent, bSemicolon) ==
    LET d1 == [d EXCEPT !.BlockCount = @ - 1]
        d2 == IF bUnindent THEN PopIndent(d1) ELSE d1
    IN  Line(d2, <<"}">>, bSemicolon, DefaultIndent, DefaultIndentOffset)

EndBlock(d, bUnindent, bSemicolon) ==
    LET d1 == IF d.BlockCount = 0
              THEN [d EXCEPT !.Log = Append(@, "Block end missmatch!")]
              ELSE [d EXCEPT !.BlockCount = @ - 1]
        d2 == IF bUnindent THEN PopIndent(d1) ELSE d1
    IN  Line(d2, <<"}">>, bSemicolon, DefaultIndent, DefaultIndentOffset)

-----------------------------------------------------------------------------
(* SplitName *)

\* FChar::IsUpper
UpperChars ==
    {"A", "B", "C", "D", "E", "F", "G", "H", "I", "J", "K", "L", "M",
     "N", "O", "P", "Q", "R", "S", "T", "U", "V", "W", "X", "Y", "Z"}

IsUpper(c) == c \in UpperChars

\* the loop of SplitName from index i on (i counts from 0 as in the code)
RECURSIVE SplitNameLoop(_, _, _)
SplitNameLoop(Name, i, Result) ==
    IF i < Len(Name)
    THEN LET r1 == IF IsUpper(Name[i + 1]) /\ i > 0
                   THEN Append(Result, " ") ELSE Result
         IN  SplitNameLoop(Name, i + 1, Append(r1, Name[i + 1]))
    ELSE Result

\* SplitName that adds no separator after an existing one
RECURSIVE SplitNameLoop_SkipAfterSeparator(_, _, _)
SplitNameLoop_SkipAfterSeparator(Name, i, Result) ==
    IF i < Len(Name)
    THEN LET r1 == IF IsUpper(Name[i + 1]) /\ i > 0 /\ Name[i] # " "
                   THEN Append(Result, " ") ELSE Result
         IN  SplitNameLoop_SkipAfterSeparator(Name, i + 1, Append(r1, Name[i + 1]))
    ELSE Result

SplitName_SkipAfterSeparator(Name) ==
    SplitNameLoop_SkipAfterSeparator(Name, 0, <<>>)

\* SplitName without the i > 0 test
RECURSIVE SplitNameLoop_NoIndexTest(_, _, _)
SplitNameLoop_NoIndexTest(Name, i, Result) ==
    IF i < Len(Name)
    THEN LET r1 == IF IsUpper(Name[i + 1])
                   THEN Append(Result, " ") ELSE Result
         IN  SplitNameLoop_NoIndexTest(Name, i + 1, Append(r1, Name[i + 1]))
    ELSE Result

SplitName_NoIndexTest(Name) == SplitNameLoop_NoIndexTest(Name, 0, <<>>)

SplitName(Name) == SplitNameLoop(Name, 0, <<>>)

-----------------------------------------------------------------------------
(* Variable *)

\* FChar::ToLower on the upper case letters
LowerOf ==
    "A" :> "a" @@ "B" :> "b" @@ "C" :> "c" @@ "D" :> "d" @@ "E" :> "e" @@ "F" :> "f" @@
    "G" :> "g" @@ "H" :> "h" @@ "I" :> "i" @@ "J" :> "j" @@ "K" :> "k" @@ "L" :> "l" @@
    "M" :> "m" @@ "N" :> "n" @@ "O" :> "o" @@ "P" :> "p" @@ "Q" :> "q" @@ "R" :> "r" @@
    "S" :> "s" @@ "T" :> "t" @@ "U" :> "u" @@ "V" :> "v" @@ "W" :> "w" @@ "X" :> "x" @@
    "Y" :> "y" @@ "Z" :> "z"

ToLower(c) == IF c \in DOMAIN LowerOf THEN LowerOf[c] ELSE c

\* FString::operator==, which ignores case (ESearchCase::IgnoreCase)
EqualsIgnoreCase(a, b) ==
    /\ Len(a) = Len(b)
    /\ \A i \in 1..Len(a) : ToLower(a[i]) = ToLower(b[i])

FTextType ==
    <<"F", "T", "e", "x", "t">>

TextName ==
    <<"T", "e", "x", "t">>

MenuTextName ==
    <<"M", "e", "n", "u", "T", "e", "x", "t">>

CreatedByName ==
    <<"C", "r", "e", "a", "t", "e", "d", "B", "y">>

StageDirectionsName ==
    <<"S", "t", "a", "g", "e", "D", "i", "r", "e", "c", "t", "i", "o", "n",
      "s">>

\* static TArray<FString> ReservedNames
ReservedNames ==
    {TextName, DisplayName, MenuTextName, CreatedByName, StageDirectionsName}

\* ReservedNames.Contains(Name): TArray::Contains compares with operator==
ReservedContains(Name) == \E r \in ReservedNames : EqualsIgnoreCase(r, Name)

UPropertyOpen ==
    <<"U", "P", "R", "O", "P", "E", "R", "T", "Y", "(">>

UFunctionOpen ==
    <<"U", "F", "U", "N", "C", "T", "I", "O", "N", "(">>

AccessorLabelOpen ==
    <<"U", "F", "U", "N", "C", "T", "I", "O", "N", "(", "B", "l", "u", "e",
      "p", "r", "i", "n", "t", "P", "u", "r", "e", ",", " ", "m", "e", "t",
      "a", "=", "(", "D", "i", "s", "p", "l", "a", "y", "N", "a", "m", "e",
      "=", "\"", "G", "e", "t", " ">>

AccessorLabelClose ==
    <<" ", "(", "L", "o", "c", "a", "l", "i", "z", "e", "d", ")", "\"",
      ")", ")">>

AccessorGet ==
    <<" ", "G", "e", "t">>

AccessorBodyOpen ==
    <<"(", ")", " ", "{", " ", "r", "e", "t", "u", "r", "n", " ", "G", "e",
      "t", "P", "r", "o", "p", "e", "r", "t", "y", "T", "e", "x", "t", "(">>

AccessorBodyClose ==
    <<")", ";", " ", "}">>

UPropertyMacro(d, Specifiers) ==
    Line(d, UPropertyOpen \o Specifiers \o <<")">>,
         DefaultSemicolon, DefaultIndent, DefaultIndentOffset)

UFunctionMacro(d, Specifiers) ==
    Line(d, UFunctionOpen \o Specifiers \o <<")">>,
         DefaultSemicolon, DefaultIndent, DefaultIndentOffset)

\* the accessor test without bUproperty
IsLocalizedText_IgnoreAnnotation(Type, bUproperty) == Type = FTextType

\* if(bUproperty && Type.Equals(TEXT("FText"))): Equals is case sensitive
IsLocalizedText(Type, bUproperty) == bUproperty /\ Type = FTextType

Variable(d, Type, Name, Value, CommentText, bUproperty, UpropertySpecifiers) ==
    LET d1 == IF CommentText # <<>> THEN Comment(d, CommentText) ELSE d
        d2 == IF bUproperty THEN UPropertyMacro(d1, UpropertySpecifiers) ELSE d1
        str == Type \o <<" ">> \o Name
                 \o (IF Value # <<>> THEN <<" ", "=", " ">> \o Value ELSE <<>>)
        d3 == Line(d2, str, TRUE, DefaultIndent, DefaultIndentOffset)
    IN  IF IsLocalizedText(Type, bUproperty) /\ ~ReservedContains(Name)
        THEN LET d4 == Line(d3, AccessorLabelOpen \o SplitName(Name)
                                   \o AccessorLabelClose,
                            DefaultSemicolon, DefaultIndent, DefaultIndentOffset)
             IN  Line(d4, Type \o AccessorGet \o Name \o AccessorBodyOpen
                             \o Name \o AccessorBodyClose,
                      DefaultSemicolon, DefaultIndent, DefaultIndentOffset)
        ELSE d3

-----------------------------------------------------------------------------
(* StartClass, StartStruct, EndStruct *)

\* FString::ToUpper, character by character
ToUpper(c) ==
    IF \E u \in DOMAIN LowerOf : LowerOf[u] = c
    THEN CHOOSE u \in DOMAIN LowerOf : LowerOf[u] = c
    ELSE c

ApiSuffix ==
    <<"_", "A", "P", "I", " ">>

UClassOpen ==
    <<"U", "C", "L", "A", "S", "S", "(">>

ClassKeyword ==
    <<"c", "l", "a", "s", "s", " ">>

StructKeyword ==
    <<"s", "t", "r", "u", "c", "t", " ">>

UStructMacro ==
    <<"U", "S", "T", "R", "U", "C", "T", "(", "B", "l", "u", "e", "p", "r",
      "i", "n", "t", "T", "y", "p", "e", ")">>

GeneratedBody ==
    <<"G", "E", "N", "E", "R", "A", "T", "E", "D", "_", "B", "O", "D", "Y",
      "(", ")">>

GetExportMacro == [i \in DOMAIN ProjectName |-> ToUpper(ProjectName[i])] \o ApiSuffix

\* the optional comment, the optional macro line, the header line and
\* StartBlock(true), then GENERATED_BODY() and an empty line when annotated
StartClass(d, Classname, CommentText, bUClass, UClassSpecifiers) ==
    LET ExportMacro == IF bUClass THEN GetExportMacro ELSE <<>>
        d1 == IF CommentText # <<>> THEN Comment(d, CommentText) ELSE d
        d2 == IF bUClass
              THEN Line(d1, UClassOpen \o UClassSpecifiers \o <<")">>,
                        DefaultSemicolon, DefaultIndent, DefaultIndentOffset)
              ELSE d1
        d3 == Line(d2, ClassKeyword \o ExportMacro \o Classname,
                   DefaultSemicolon, DefaultIndent, DefaultIndentOffset)
        d4 == StartBlock(d3, TRUE)
    IN  IF bUClass
        THEN Line(Line(d4, GeneratedBody,
                       DefaultSemicolon, DefaultIndent, DefaultIndentOffset),
                  <<>>, DefaultSemicolon, DefaultIndent, DefaultIndentOffset)
        ELSE d4

StartStruct(d, Structname, CommentText, bUStruct) ==
    LET ExportMacro == IF bUStruct THEN GetExportMacro ELSE <<>>
        d1 == IF CommentText # <<>> THEN Comment(d, CommentText) ELSE d
        d2 == IF bUStruct
              THEN Line(d1, UStructMacro,
                        DefaultSemicolon, DefaultIndent, DefaultIndentOffset)
              ELSE d1
        d3 == Line(d2, StructKeyword \o ExportMacro \o Structname,
                   DefaultSemicolon, DefaultIndent, DefaultIndentOffset)
        d4 == StartBlock(d3, TRUE)
    IN  IF bUStruct
        THEN Line(Line(d4, GeneratedBody,
                       DefaultSemicolon, DefaultIndent, DefaultIndentOffset),
                  <<>>, DefaultSemicolon, DefaultIndent, DefaultIndentOffset)
        ELSE d4

EndStruct(d, InlineDeclaration) ==
    LET d1 == EndBlock(d, TRUE, InlineDeclaration = <<>>)
    IN  IF InlineDeclaration # <<>>
        THEN Line(d1, InlineDeclaration, TRUE, DefaultIndent, DefaultIndentOffset)
        ELSE d1

-----------------------------------------------------------------------------
(* WriteToFile *)

Call(fn, path) == [fn |-> fn, path |-> path]

\* WriteToFile without the empty-buffer test
NothingToWrite_Never(content) == FALSE

\* if(FileContent.IsEmpty()) return;
NothingToWrite(content) == content = <<>>

\* WriteToFile without the open-block test
BlocksOpen_Never(count) == FALSE

\* if(BlockCount > 0) UE_LOG(LogArticyEditor, Warning, ...)
BlocksOpen(count) == count > 0

\* the mark-for-add test without IsEnabled()
ShouldMarkForAdd_IgnoreEnabled(bFileExisted, bFileWritten, enabled) ==
    ~bFileExisted /\ bFileWritten

\* bool bFileExisted = false; no later statement assigns it
FileExistedFlag(exists) == FALSE

\* FString OldContent; FFileHelper::LoadFileToString(OldContent, *Path);
\* the bool it returns is discarded, a failed load leaves OldContent empty
LoadFileToString(file, readOk) == IF readOk THEN file.content ELSE <<>>

\* if (FileContent.Equals(OldContent)) return;
ContentUnchanged(content, OldContent) == content = OldContent

\* bCheckOutEnabled: UsesCheckout() is asked only when IsEnabled()
CheckOutEnabled(enabled, uses) == enabled /\ uses

\* if(bFileExisted && bCheckOutEnabled) CheckOutFile(*Path); its result is discarded
ShouldCheckOut(bFileExisted, bCheckOutEnabled) == bFileExisted /\ bCheckOutEnabled

\* a save that lands in every file
SaveStringToFile_AnyPath(dsk, path, content, writeOk) ==
    IF writeOk THEN [p \in DOMAIN dsk |-> File(content)] ELSE dsk

\* FFileHelper::SaveStringToFile(FileContent, *Path, ForceUTF8): a failed save
\* is taken to leave the file system as it was
SaveStringToFile(dsk, path, content, writeOk) ==
    IF writeOk THEN [dsk EXCEPT ![path] = File(content)] ELSE dsk

\* the mark-for-add test without bFileWritten
ShouldMarkForAdd_IgnoreWritten(bFileExisted, bFileWritten, enabled) ==
    ~bFileExisted /\ enabled

\* if(!bFileExisted && bFileWritten && SCModule.IsEnabled()) MarkFileForAdd(*Path);
ShouldMarkForAdd(bFileExisted, bFileWritten, enabled) ==
    ~bFileExisted /\ bFileWritten /\ enabled

\* The whole of WriteToFile() const: the file system, the log, the external
\* calls in the order made, and the return taken. The function is void; result
\* names the return statement: "Skipped" for the early returns (lines 153,
\* 169), "Written" for the end of the function (line 192).
WriteToFile(d, path, dsk, enabled, uses, readOk, writeOk) ==
    IF NothingToWrite(d.FileContent)
    THEN [disk |-> dsk, Log |-> d.Log, calls |-> <<>>, result |-> "Skipped"]
    ELSE
    LET log1 == IF BlocksOpen(d.BlockCount)
                THEN Append(d.Log, "Block count is not 0 when writing to file!")
                ELSE d.Log
        exists == dsk[path].exists
        bFileExisted == FileExistedFlag(exists)
        OldContent == LoadFileToString(dsk[path], readOk)
        c1 == <<Call("FileExists", path)>>
                 \o (IF exists THEN <<Call("LoadFileToString", path)>> ELSE <<>>)
    IN  IF exists /\ ContentUnchanged(d.FileContent, OldContent)
        THEN [disk |-> dsk, Log |-> log1, calls |-> c1, result |-> "Skipped"]
        ELSE
        LET bCheckOutEnabled == CheckOutEnabled(enabled, uses)
            c2 == c1 \o <<Call("IsEnabled", "")>>
                     \o (IF enabled THEN <<Call("UsesCheckout", "")>> ELSE <<>>)
            c3 == c2 \o (IF ShouldCheckOut(bFileExisted, bCheckOutEnabled)
                         THEN <<Call("CheckOutFile", path)>> ELSE <<>>)
            bFileWritten == writeOk
            c4 == c3 \o <<Call("SaveStringToFile", path)>>
            c5 == c4 \o (IF ~bFileExisted /\ bFileWritten
                         THEN <<Call("IsEnabled", "")>> ELSE <<>>)
            c6 == c5 \o (IF ShouldMarkForAdd(bFileExisted, bFileWritten, enabled)
                         THEN <<Call("MarkFileForAdd", path)>> ELSE <<>>)
        IN  [disk |-> SaveStringToFile(dsk, path, d.FileContent, writeOk),
             Log |-> log1, calls |-> c6, result |-> "Written"]

-----------------------------------------------------------------------------
(* History bookkeeping *)

NoArgs ==
    [text |-> <<>>, bSemicolon |-> FALSE, bIndent |-> FALSE, bUnindent |-> FALSE,
     IndentOffset |-> 0, readOk |-> TRUE, writeOk |-> TRUE,
     type |-> <<>>, name |-> <<>>, value |-> <<>>, comment |-> <<>>,
     annotated |-> FALSE, specifiers |-> <<>>]

Snapshot ==
    [FileContent |-> FileContent, IndentCount |-> IndentCount,
     BlockCount |-> BlockCount, logLen |-> Len(Log), disk |-> disk,
     lastOp |-> lastOp, result |-> result]

NoBlock ==
    [valid |-> FALSE, bIndent |-> FALSE, bUnindent |-> FALSE, depth |-> 0,
     line |-> 0, pure |-> TRUE, matched |-> TRUE]

\* a direct PushIndent/PopIndent, StartBlock(false) or EndBlock(false, _)
Suppresses(op, a) ==
    \/ op \in {"PushIndent", "PopIndent"}
    \/ op = "StartBlock" /\ ~a.bIndent
    \/ op = "EndBlock" /\ ~a.bUnindent

\* a direct PushIndent/PopIndent inside the open blocks
Impure(stack) == [i \in DOMAIN stack |-> [stack[i] EXCEPT !.pure = FALSE]]

\* the open blocks once the innermost one was closed by EndBlock(bUnindent, _)
CloseInnermost(stack, bUnindent) ==
    LET top == stack[Len(stack)]
        ok == top.matched /\ top.bIndent = bUnindent
        rest == SubSeq(stack, 1, Len(stack) - 1)
    IN  [i \in DOMAIN rest |->
            [rest[i] EXCEPT !.pure = @ /\ top.pure, !.matched = @ /\ ok]]

\* the effect of an operation that changes the generator object only
Emit(op, a, d, net, stack, blk) ==
    /\ FileContent' = d.FileContent
    /\ IndentCount' = d.IndentCount
    /\ BlockCount' = d.BlockCount
    /\ Log' = d.Log
    /\ nOps' = nOps + 1
    /\ lastOp' = op
    /\ args' = a
    /\ pre' = Snapshot
    /\ netIndent' = net
    /\ open' = stack
    /\ closed' = blk
    /\ suppressed' = (suppressed \/ Suppresses(op, a))
    /\ UNCHANGED <<Path, disk, scEnabled, usesCheckout, calls, result, returned>>

-----------------------------------------------------------------------------
(* Operations *)

LineOp(text, bSemicolon, bIndent, IndentOffset) ==
    Emit("Line",
         [NoArgs EXCEPT !.text = text, !.bSemicolon = bSemicolon,
                        !.bIndent = bIndent, !.IndentOffset = IndentOffset],
         Line(Self, text, bSemicolon, bIndent, IndentOffset),
         netIndent, open, NoBlock)

CommentOp(text) ==
    Emit("Comment", [NoArgs EXCEPT !.text = text], Comment(Self, text),
         netIndent, open, NoBlock)

AccessModifierOp(text) ==
    Emit("AccessModifier", [NoArgs EXCEPT !.text = text],
         AccessModifier(Self, text), netIndent, open, NoBlock)

PushIndentOp ==
    Emit("PushIndent", NoArgs, PushIndent(Self), netIndent + 1, Impure(open),
         NoBlock)

PopIndentOp ==
    Emit("PopIndent", NoArgs, PopIndent(Self),
         IF IndentCount > 0 THEN netIndent - 1 ELSE netIndent, Impure(open),
         NoBlock)

StartBlockOp(bIndent) ==
    Emit("StartBlock", [NoArgs EXCEPT !.bIndent = bIndent],
         StartBlock(Self, bIndent),
         IF bIndent THEN netIndent + 1 ELSE netIndent,
         Append(open, [bIndent |-> bIndent, depth |-> IndentCount,
                       line |-> Count(FileContent, "\n") + 1,
                       pure |-> TRUE, matched |-> TRUE]),
         NoBlock)

EndBlockOp(bUnindent, bSemicolon) ==
    Emit("EndBlock",
         [NoArgs EXCEPT !.bUnindent = bUnindent, !.bSemicolon = bSemicolon],
         EndBlock(Self, bUnindent, bSemicolon),
         IF bUnindent /\ IndentCount > 0 THEN netIndent - 1 ELSE netIndent,
         IF open = <<>> THEN open ELSE CloseInnermost(open, bUnindent),
         IF open = <<>> THEN NoBlock
         ELSE LET top == open[Len(open)]
              IN  [valid |-> TRUE, bIndent |-> top.bIndent,
                   bUnindent |-> bUnindent, depth |-> top.depth,
                   line |-> top.line, pure |-> top.pure,
                   matched |-> top.matched])

WriteToFileOp(readOk, writeOk) ==
    LET r == WriteToFile(Self, Path, disk, scEnabled, usesCheckout, readOk, writeOk)
    IN  /\ disk' = r.disk
        /\ Log' = r.Log
        /\ calls' = r.calls
        /\ result' = r.result
        /\ nOps' = nOps + 1
        /\ lastOp' = "WriteToFile"
        /\ args' = [NoArgs EXCEPT !.readOk = readOk, !.writeOk = writeOk]
        /\ pre' = Snapshot
        /\ closed' = NoBlock
        /\ UNCHANGED <<FileContent, IndentCount, BlockCount, Path, scEnabled,
                       usesCheckout, netIndent, open, suppressed, returned>>

-----------------------------------------------------------------------------
(* Specifications *)

\* the state after construction: empty buffer, no indent, no open block
Fresh ==
    /\ FileContent = <<>>
    /\ IndentCount = 0
    /\ BlockCount = 0
    /\ Log = <<>>
    /\ nOps = 0
    /\ lastOp = "Init"
    /\ args = NoArgs
    /\ calls = <<>>
    /\ result = "None"
    /\ netIndent = 0
    /\ open = <<>>
    /\ closed = NoBlock
    /\ suppressed = FALSE
    /\ returned = <<>>

\* a document for either target path, any file system and source control setup
Init ==
    /\ Fresh
    /\ Path \in Paths
    /\ disk \in [Paths -> InitialFiles]
    /\ scEnabled \in BOOLEAN
    /\ usesCheckout \in BOOLEAN
    /\ pre = Snapshot

\* a document is built from a few lines and blocks, and written
Next ==
    \/ /\ nOps < MaxCommitOps
       /\ \E t \in CommitTexts :
            LineOp(t, DefaultSemicolon, DefaultIndent, DefaultIndentOffset)
    \/ /\ nOps < MaxCommitOps
       /\ StartBlockOp(TRUE)
    \/ /\ nOps < MaxCommitOps
       /\ EndBlockOp(TRUE, FALSE)
    \/ /\ nOps < MaxCommitOps
       /\ \E readOk \in BOOLEAN, writeOk \in BOOLEAN : WriteToFileOp(readOk, writeOk)

Spec == Init /\ [][Next]_vars

\* the emitter alone, nothing on disk and source control off
InitEmit ==
    /\ Fresh
    /\ Path = "A.h"
    /\ disk = [p \in Paths |-> NoFile]
    /\ scEnabled = FALSE
    /\ usesCheckout = FALSE
    /\ pre = Snapshot

NextEmit ==
    \/ /\ nOps < MaxOps
       /\ \E t \in Texts, s \in BOOLEAN, b \in BOOLEAN, o \in IndentOffsets :
            LineOp(t, s, b, o)
    \/ /\ nOps < MaxOps
       /\ \E t \in Texts : CommentOp(t)
    \/ /\ nOps < MaxOps
       /\ \E t \in ModifierTexts : AccessModifierOp(t)
    \/ /\ nOps < MaxOps
       /\ PushIndentOp
    \/ /\ nOps < MaxOps
       /\ PopIndentOp
    \/ /\ nOps < MaxOps
       /\ \E b \in BOOLEAN : StartBlockOp(b)
    \/ /\ nOps < MaxOps
       /\ \E u \in BOOLEAN, s \in BOOLEAN : EndBlockOp(u, s)

SpecEmit == InitEmit /\ [][NextEmit]_vars

\* the block and indent tracker alone, deep enough for nested blocks
NextBlocks ==
    \/ /\ nOps < MaxBlockOps
       /\ LineOp(<<"x">>, DefaultSemicolon, DefaultIndent, DefaultIndentOffset)
    \/ /\ nOps < MaxBlockOps
       /\ PushIndentOp
    \/ /\ nOps < MaxBlockOps
       /\ PopIndentOp
    \/ /\ nOps < MaxBlockOps
       /\ \E b \in BOOLEAN : StartBlockOp(b)
    \/ /\ nOps < MaxBlockOps
       /\ \E u \in BOOLEAN, s \in BOOLEAN : EndBlockOp(u, s)

SpecBlocks == InitEmit /\ [][NextBlocks]_vars

\* SplitName applied to a name, and to the string it returned
SplitNameOp(Name) ==
    /\ lastOp' = "SplitName"
    /\ args' = [NoArgs EXCEPT !.text = Name]
    /\ returned' = SplitName(Name)
    /\ nOps' = nOps + 1
    /\ pre' = Snapshot
    /\ closed' = NoBlock
    /\ UNCHANGED <<FileContent, IndentCount, BlockCount, Path, Log, disk,
                   scEnabled, usesCheckout, calls, result, netIndent, open,
                   suppressed>>

VariableOp(Type, Name, Value, CommentText, bUproperty, UpropertySpecifiers) ==
    Emit("Variable",
         [NoArgs EXCEPT !.type = Type, !.name = Name, !.value = Value,
                        !.comment = CommentText, !.annotated = bUproperty,
                        !.specifiers = UpropertySpecifiers],
         Variable(Self, Type, Name, Value, CommentText, bUproperty,
                  UpropertySpecifiers),
         netIndent, open, NoBlock)

\* declarations at any indent depth
NextVariable ==
    \/ /\ nOps < MaxVarOps
       /\ PushIndentOp
    \/ /\ nOps < MaxVarOps
       /\ \E t \in VarTypes, n \in VarNames, x \in VarExtras, b \in BOOLEAN :
            VariableOp(t, n, x.value, x.comment, b, VarSpecifiers)

SpecVariable == InitEmit /\ [][NextVariable]_vars

\* the history of a StartBlock(bIndent) made at the current depth, after
\* headerLines more lines were emitted
Opened(bIndent, headerLines) ==
    Append(open, [bIndent |-> bIndent, depth |-> IndentCount,
                  line |-> Count(FileContent, "\n") + headerLines + 1,
                  pure |-> TRUE, matched |-> TRUE])

\* the history of an EndBlock(bUnindent, _) made now
ClosedBy(bUnindent) ==
    IF open = <<>> THEN NoBlock
    ELSE LET top == open[Len(open)]
         IN  [valid |-> TRUE, bIndent |-> top.bIndent, bUnindent |-> bUnindent,
              depth |-> top.depth, line |-> top.line, pure |-> top.pure,
              matched |-> top.matched]

StartClassOp(Classname, CommentText, bUClass, UClassSpecifiers) ==
    Emit("StartClass",
         [NoArgs EXCEPT !.name = Classname, !.comment = CommentText,
                        !.annotated = bUClass, !.specifiers = UClassSpecifiers,
                        !.bIndent = TRUE],
         StartClass(Self, Classname, CommentText, bUClass, UClassSpecifiers),
         netIndent + 1,
         Opened(TRUE, Count(<<CommentText # <<>>, bUClass, TRUE>>, TRUE)),
         NoBlock)

StartStructOp(Structname, CommentText, bUStruct) ==
    Emit("StartStruct",
         [NoArgs EXCEPT !.name = Structname, !.comment = CommentText,
                        !.annotated = bUStruct, !.bIndent = TRUE],
         StartStruct(Self, Structname, CommentText, bUStruct),
         netIndent + 1,
         Opened(TRUE, Count(<<CommentText # <<>>, bUStruct, TRUE>>, TRUE)),
         NoBlock)

EndStructOp(InlineDeclaration) ==
    Emit("EndStruct",
         [NoArgs EXCEPT !.name = InlineDeclaration, !.bUnindent = TRUE,
                        !.bSemicolon = (InlineDeclaration = <<>>)],
         EndStruct(Self, InlineDeclaration),
         IF IndentCount > 0 THEN netIndent - 1 ELSE netIndent,
         IF open = <<>> THEN open ELSE CloseInnermost(open, TRUE),
         ClosedBy(TRUE))

UPropertyMacroOp(Specifiers) ==
    Emit("UPropertyMacro", [NoArgs EXCEPT !.specifiers = Specifiers],
         UPropertyMacro(Self, Specifiers), netIndent, open, NoBlock)

UFunctionMacroOp(Specifiers) ==
    Emit("UFunctionMacro", [NoArgs EXCEPT !.specifiers = Specifiers],
         UFunctionMacro(Self, Specifiers), netIndent, open, NoBlock)

\* classes and structs with their members
NextClass ==
    \/ /\ nOps < MaxClassOps
       /\ \E c \in ClassComments, b \in BOOLEAN : StartClassOp(Foo, c, b, VarSpecifiers)
    \/ /\ nOps < MaxClassOps
       /\ \E c \in ClassComments, b \in BOOLEAN : StartStructOp(Foo, c, b)
    \/ /\ nOps < MaxClassOps
       /\ VariableOp(Int32Type, Bar, <<"0">>, <<>>, FALSE, <<>>)
    \/ /\ nOps < MaxClassOps
       /\ VariableOp(FTextType, Greeting, <<>>, <<>>, TRUE, VarSpecifiers)
    \/ /\ nOps < MaxClassOps
       /\ \E n \in InlineDeclarations : EndStructOp(n)
    \/ /\ nOps < MaxClassOps
       /\ UPropertyMacroOp(VarSpecifiers)
    \/ /\ nOps < MaxClassOps
       /\ UFunctionMacroOp(VarSpecifiers)

SpecClass == InitEmit /\ [][NextClass]_vars

\* every emission operation and WriteToFile, over any file system and source
\* control setup
NextFrame ==
    \/ /\ nOps < MaxFrameOps
       /\ LineOp(<<"x">>, DefaultSemicolon, DefaultIndent, DefaultIndentOffset)
    \/ /\ nOps < MaxFrameOps
       /\ CommentOp(<<"c">>)
    \/ /\ nOps < MaxFrameOps
       /\ VariableOp(FTextType, Greeting, <<>>, <<>>, TRUE, VarSpecifiers)
    \/ /\ nOps < MaxFrameOps
       /\ StartBlockOp(TRUE)
    \/ /\ nOps < MaxFrameOps
       /\ EndBlockOp(TRUE, FALSE)
    \/ /\ nOps < MaxFrameOps
       /\ StartClassOp(Foo, <<>>, TRUE, VarSpecifiers)
    \/ /\ nOps < MaxFrameOps
       /\ StartStructOp(Foo, <<>>, FALSE)
    \/ /\ nOps < MaxFrameOps
       /\ EndStructOp(<<>>)
    \/ /\ nOps < MaxFrameOps
       /\ \E readOk \in BOOLEAN, writeOk \in BOOLEAN : WriteToFileOp(readOk, writeOk)

SpecFrame == Init /\ [][NextFrame]_vars

NextSplit ==
    \/ /\ nOps = 0
       /\ \E n \in Names : SplitNameOp(n)
    \/ /\ nOps = 1
       /\ SplitNameOp(returned)

SpecSplit == InitEmit /\ [][NextSplit]_vars

-----------------------------------------------------------------------------
(* Properties of WriteToFile, checked under Spec *)

Committed == lastOp = "WriteToFile"

\* the target file as the last operation found it
TargetBefore == pre.disk[Path]

\* positions in calls of the calls of fn on the target path
CallsTo(fn) == {i \in DOMAIN calls : calls[i] = Call(fn, Path)}

CallsBefore(fn1, fn2) == \A i \in CallsTo(fn1), j \in CallsTo(fn2) : i < j

\* C1: a commit of a non-empty document over an existing file with other
\* content, with source control enabled and using checkout, makes exactly one
\* CheckOutFile call on the target path, and makes it before the write.
C1_CheckOutBeforeWrite ==
    (/\ Committed
     /\ FileContent # <<>>
     /\ TargetBefore.exists
     /\ TargetBefore.content # FileContent
     /\ scEnabled
     /\ usesCheckout)
    => /\ Cardinality(CallsTo("CheckOutFile")) = 1
       /\ CallsBefore("CheckOutFile", "SaveStringToFile")

\* C2: a commit calls MarkFileForAdd on the target path exactly when the file
\* did not exist before, the write succeeded and source control is enabled.
C2_MarkForAddIffNew ==
    Committed =>
        (CallsTo("MarkFileForAdd") # {}
            <=> (/\ ~TargetBefore.exists
                 /\ CallsTo("SaveStringToFile") # {}
                 /\ args.writeOk
                 /\ scEnabled))

\* C3: a commit of a document whose text is identical to the content of the
\* existing target file returns Skipped and makes no write, no CheckOutFile and
\* no MarkFileForAdd call, whatever the source control setup.
C3_IdenticalSkipped ==
    (/\ Committed
     /\ TargetBefore.exists
     /\ TargetBefore.content = FileContent)
    => /\ result = "Skipped"
       /\ CallsTo("SaveStringToFile") = {}
       /\ CallsTo("CheckOutFile") = {}
       /\ CallsTo("MarkFileForAdd") = {}
       /\ disk = pre.disk

\* C4 as stated: a commit to a path that does not exist yet, with source
\* control enabled, makes one write followed by exactly one MarkFileForAdd
\* call, and no CheckOutFile call.
C4_NewFileWriteThenAdd ==
    (/\ Committed
     /\ ~TargetBefore.exists
     /\ scEnabled)
    => /\ Cardinality(CallsTo("SaveStringToFile")) = 1
       /\ Cardinality(CallsTo("MarkFileForAdd")) = 1
       /\ CallsBefore("SaveStringToFile", "MarkFileForAdd")
       /\ CallsTo("CheckOutFile") = {}

\* C4 amended: a commit of a non-empty document to a path that does not exist
\* yet, with source control enabled, makes one write and no CheckOutFile call;
\* when the write succeeds the file holds the generated text and exactly one
\* MarkFileForAdd call follows the write, when it fails there is none.
C4_NewFileWriteThenAddIfWritten ==
    (/\ Committed
     /\ ~TargetBefore.exists
     /\ scEnabled
     /\ FileContent # <<>>)
    => /\ Cardinality(CallsTo("SaveStringToFile")) = 1
       /\ CallsTo("CheckOutFile") = {}
       /\ CallsBefore("SaveStringToFile", "MarkFileForAdd")
       /\ IF args.writeOk
          THEN /\ Cardinality(CallsTo("MarkFileForAdd")) = 1
               /\ disk[Path] = File(FileContent)
          ELSE /\ CallsTo("MarkFileForAdd") = {}
               /\ disk = pre.disk

C4_Witness ==
    /\ Committed
    /\ ~TargetBefore.exists
    /\ scEnabled
    /\ FileContent # <<>>
    /\ args.writeOk
    /\ calls[Len(calls)] = Call("MarkFileForAdd", Path)

\* a read or a write that WriteToFile attempted and that failed
ReadFailed == CallsTo("LoadFileToString") # {} /\ ~args.readOk

WriteFailed == CallsTo("SaveStringToFile") # {} /\ ~args.writeOk

\* C5: a commit returns an IOError whenever the read of the existing file or
\* the write fails, and returns Written only when the write succeeded.
C5_FailuresReported ==
    Committed =>
        /\ (ReadFailed \/ WriteFailed) => result = "IOError"
        /\ result = "Written" => (CallsTo("SaveStringToFile") # {} /\ args.writeOk)

\* C6: a commit of a document with an empty buffer returns Skipped without
\* any file system or source control call, and leaves every file as it was.
C6_EmptySkipped ==
    (Committed /\ FileContent = <<>>)
    => /\ result = "Skipped"
       /\ calls = <<>>
       /\ disk = pre.disk

C6_Witness ==
    /\ Committed
    /\ FileContent = <<>>
    /\ TargetBefore.exists
    /\ TargetBefore.content # <<>>
    /\ disk[Path] = TargetBefore
    /\ result = "Skipped"

-----------------------------------------------------------------------------
(* Properties of the block and indent tracker, checked under SpecBlocks *)

StartsWith(s, prefix) ==
    /\ Len(s) >= Len(prefix)
    /\ SubSeq(s, 1, Len(prefix)) = prefix

\* the last EndBlock closed the outermost open block, and no PushIndent or
\* PopIndent was called directly since that block was started
BalancedRunEnded ==
    /\ lastOp = "EndBlock"
    /\ closed.valid
    /\ closed.pure
    /\ open = <<>>

\* C7 as stated: after any balanced sequence of StartBlock/EndBlock calls the
\* open-block count is 0 and the indent depth is the depth before the sequence.
C7_BalancedRestores ==
    BalancedRunEnded => (BlockCount = 0 /\ IndentCount = closed.depth)

\* C7 amended: when every EndBlock of the balanced sequence has the unindent
\* flag equal to the indent flag of the StartBlock it closes, each EndBlock
\* brings the indent depth back to the depth at its StartBlock, and the
\* open-block count is the number of blocks still open: 0 at the end.
C7_MatchedBalancedRestores ==
    (/\ lastOp = "EndBlock"
     /\ closed.valid
     /\ closed.pure
     /\ closed.matched
     /\ closed.bIndent = closed.bUnindent)
    => /\ IndentCount = closed.depth
       /\ BlockCount = Len(open)
       /\ open = <<>> => BlockCount = 0

\* a block nested in an indented block, both closed with matching flags
C7_Witness ==
    /\ BalancedRunEnded
    /\ closed.matched
    /\ closed.bIndent
    /\ closed.bUnindent
    /\ Count(FileContent, "{") = 2
    /\ Count(FileContent, "}") = 2
    /\ Count(FileContent, "\t") > 0
    /\ BlockCount = 0

\* the text EndBlock(_, bSemicolon) emits last
ClosingLine(bSemicolon) ==
    <<"}">> \o (IF bSemicolon THEN <<";">> ELSE <<>>) \o <<"\n">>

\* C8: the open-block count is never negative; an EndBlock with no open block
\* leaves it at 0, logs "Block end missmatch!" and still appends the closing
\* delimiter line to the buffer.
C8_UnmatchedEndBlock ==
    /\ BlockCount >= 0
    /\ (lastOp = "EndBlock" /\ pre.BlockCount = 0)
       => /\ BlockCount = 0
          /\ Len(Log) > pre.logLen
          /\ Log[pre.logLen + 1] = "Block end missmatch!"
          /\ StartsWith(FileContent, pre.FileContent)
          /\ Len(FileContent) >= Len(pre.FileContent) + Len(ClosingLine(args.bSemicolon))
          /\ EndsWith(FileContent, ClosingLine(args.bSemicolon))

C8_Witness ==
    /\ lastOp = "EndBlock"
    /\ pre.BlockCount = 0
    /\ pre.FileContent # <<>>
    /\ BlockCount = 0
    /\ Log[Len(Log)] = "Block end missmatch!"

\* C9: the indent depth is never negative and equals the net of the
\* indent-affecting operations issued so far (PushIndent and StartBlock with
\* indent count +1, PopIndent and EndBlock with unindent count -1 unless the
\* depth was 0); a PopIndent at depth 0, direct or through EndBlock, leaves
\* the depth at 0.
C9_IndentIsNet ==
    /\ IndentCount >= 0
    /\ IndentCount = netIndent
    /\ (/\ lastOp = "PopIndent" \/ (lastOp = "EndBlock" /\ args.bUnindent)
        /\ pre.IndentCount = 0)
       => IndentCount = 0

C9_Witness ==
    /\ lastOp = "EndBlock"
    /\ args.bUnindent
    /\ pre.IndentCount = 0
    /\ IndentCount = 0
    /\ nOps > 2

-----------------------------------------------------------------------------
(* Properties of Line, checked under SpecEmit *)

\* n indentation units
Indentation(n) == [i \in 1..n |-> "\t"]

WithColon(text) ==
    IF text # <<>> /\ text[Len(text)] = ":" THEN text ELSE Append(text, ":")

\* C10: Line appends max(0, IndentCount + IndentOffset) tabs when bIndent and
\* none otherwise, then the text, then ";" when bSemicolon, then one line
\* break, and changes neither the indent depth nor the open-block count;
\* AccessModifier is such a line with offset -1.
C10_LineAppends ==
    /\ lastOp = "Line" =>
        /\ FileContent =
              pre.FileContent
              \o (IF args.bIndent
                  THEN Indentation(Max(0, pre.IndentCount + args.IndentOffset))
                  ELSE <<>>)
              \o args.text
              \o (IF args.bSemicolon THEN <<";">> ELSE <<>>)
              \o <<"\n">>
        /\ IndentCount = pre.IndentCount
        /\ BlockCount = pre.BlockCount
    /\ lastOp = "AccessModifier" =>
        /\ FileContent =
              pre.FileContent \o Indentation(Max(0, pre.IndentCount - 1))
              \o WithColon(args.text) \o <<"\n">>
        /\ IndentCount = pre.IndentCount
        /\ BlockCount = pre.BlockCount

\* an offset that would drive the indentation below zero
C10_Witness ==
    /\ lastOp = "Line"
    /\ args.bIndent
    /\ args.bSemicolon
    /\ args.text # <<>>
    /\ pre.IndentCount + args.IndentOffset < 0
    /\ pre.FileContent # <<>>
    /\ Len(FileContent) = Len(pre.FileContent) + Len(args.text) + 2

-----------------------------------------------------------------------------
(* Properties of SplitName, checked under SpecSplit *)

Split == lastOp = "SplitName"

DisplaySpaceName ==
    <<"D", "i", "s", "p", "l", "a", "y", " ", "N", "a", "m", "e">>

DisplayTwoSpacesName ==
    <<"D", "i", "s", "p", "l", "a", "y", " ", " ", "N", "a", "m", "e">>

\* words that start with an upper case letter and hold no other, separated
\* by single spaces
AlreadySplit(s) ==
    /\ s # <<>>
    /\ IsUpper(s[1])
    /\ s[Len(s)] # " "
    /\ \A i \in 2..Len(s) : IsUpper(s[i]) <=> s[i - 1] = " "

\* the upper case letters of s after its first character
InteriorUpper(s) == {i \in 2..Len(s) : IsUpper(s[i])}

\* C11 as stated: SplitName returns already-split input unchanged, so that
\* applying it to its own result changes nothing.
C11_IdempotentOnSplit ==
    (Split /\ AlreadySplit(args.text)) => returned = args.text

\* C11 amended: SplitName returns its input unchanged exactly when the input
\* has no upper case letter after its first character; a second application
\* to "Display Name" gives "Display  Name".
C11_IdentityIffNoInteriorUpper ==
    Split =>
        /\ returned = args.text <=> InteriorUpper(args.text) = {}
        /\ args.text = DisplaySpaceName => returned = DisplayTwoSpacesName

C11_Witness ==
    /\ Split
    /\ nOps = 2
    /\ AlreadySplit(args.text)
    /\ args.text = DisplaySpaceName
    /\ returned = DisplayTwoSpacesName

\* C12: SplitName returns the name with one space inserted before every upper
\* case letter that is not the first character and nothing else changed: the
\* characters keep their order, the first stays first, dropping the inserted
\* spaces gives the name back, and "DisplayName" gives "Display Name".
C12_SeparatorBeforeInteriorUpper ==
    Split =>
        LET n == args.text
            shift(i) == Cardinality({j \in InteriorUpper(n) : j <= i})
        IN  /\ Len(returned) = Len(n) + Cardinality(InteriorUpper(n))
            /\ \A i \in 1..Len(n) :
                  /\ returned[i + shift(i)] = n[i]
                  /\ i \in InteriorUpper(n) => returned[i + shift(i) - 1] = " "
            /\ n # <<>> => returned[1] = n[1]
            /\ (\A i \in 1..Len(n) : n[i] # " ")
                  => SelectSeq(returned, LAMBDA c : c # " ") = n
            /\ n = DisplayName => returned = DisplaySpaceName

C12_Witness ==
    /\ Split
    /\ nOps = 1
    /\ args.text = DisplayName
    /\ returned = DisplaySpaceName

-----------------------------------------------------------------------------
(* Properties of Variable, checked under SpecVariable *)

Declared == lastOp = "Variable"

\* the text the last operation appended to the buffer
Added == SubSeq(FileContent, Len(pre.FileContent) + 1, Len(FileContent))

\* lines Variable emits up to and including the field declaration
DeclarationLines ==
    (IF args.comment # <<>> THEN 1 ELSE 0) + (IF args.annotated THEN 1 ELSE 0) + 1

\* the two accessor lines for a type and a name at an indent depth
AccessorText(Type, Name, depth) ==
    [i \in 1..depth |-> "\t"] \o AccessorLabelOpen \o SplitName(Name)
        \o AccessorLabelClose \o <<"\n">>
    \o [i \in 1..depth |-> "\t"] \o Type \o AccessorGet \o Name
        \o AccessorBodyOpen \o Name \o AccessorBodyClose \o <<"\n">>

\* the accessor follows the field declaration line and ends the added text
AccessorEmitted ==
    /\ Count(Added, "\n") = DeclarationLines + 2
    /\ EndsWith(Added, <<";", "\n">>
                          \o AccessorText(args.type, args.name, pre.IndentCount))

NoAccessorEmitted ==
    /\ Count(Added, "\n") = DeclarationLines
    /\ EndsWith(Added, <<";", "\n">>)

GreetingAccessor ==
    <<"U", "F", "U", "N", "C", "T", "I", "O", "N", "(", "B", "l", "u", "e",
      "p", "r", "i", "n", "t", "P", "u", "r", "e", ",", " ", "m", "e", "t",
      "a", "=", "(", "D", "i", "s", "p", "l", "a", "y", "N", "a", "m", "e",
      "=", "\"", "G", "e", "t", " ", "G", "r", "e", "e", "t", "i", "n",
      "g", " ", "(", "L", "o", "c", "a", "l", "i", "z", "e", "d", ")",
      "\"", ")", ")", "\n", "F", "T", "e", "x", "t", " ", "G", "e", "t",
      "G", "r", "e", "e", "t", "i", "n", "g", "(", ")", " ", "{", " ", "r",
      "e", "t", "u", "r", "n", " ", "G", "e", "t", "P", "r", "o", "p", "e",
      "r", "t", "y", "T", "e", "x", "t", "(", "G", "r", "e", "e", "t", "i",
      "n", "g", ")", ";", " ", "}", "\n">>

LowerCase(s) == [i \in DOMAIN s |-> ToLower(s[i])]

\* C13 as stated: Variable emits the accessor after the field declaration
\* exactly when the type is FText, the property is annotated and the name is
\* not one of Text, DisplayName, MenuText, CreatedBy, StageDirections.
C13_AccessorIffNotListed ==
    Declared =>
        IF args.type = FTextType /\ args.annotated /\ args.name \notin ReservedNames
        THEN AccessorEmitted
        ELSE NoAccessorEmitted

\* C13 amended: the same, with the name compared to the reserved names
\* without regard to case; for Greeting the accessor is GetGreeting with the
\* label "Get Greeting (Localized)".
C13_AccessorIffNotReserved ==
    Declared =>
        /\ IF /\ args.type = FTextType
              /\ args.annotated
              /\ LowerCase(args.name) \notin {LowerCase(r) : r \in ReservedNames}
           THEN AccessorEmitted
           ELSE NoAccessorEmitted
        /\ (/\ args.type = FTextType
            /\ args.annotated
            /\ args.name = Greeting
            /\ pre.IndentCount = 0)
           => EndsWith(FileContent, GreetingAccessor)

C13_Witness ==
    /\ Declared
    /\ args.type = FTextType
    /\ args.annotated
    /\ args.name = Greeting
    /\ args.comment # <<>>
    /\ AccessorEmitted
    /\ EndsWith(FileContent, GreetingAccessor)

-----------------------------------------------------------------------------
(* Properties of StartClass .. EndStruct, checked under SpecClass *)

\* the position of the k-th line break of a text, 0 for k = 0
LineBreak(text, k) ==
    IF k = 0 THEN 0
    ELSE CHOOSE p \in DOMAIN text :
            /\ text[p] = "\n"
            /\ Cardinality({q \in 1..p : text[q] = "\n"}) = k

\* the lines of a text, each without its line break
TextLines(text) ==
    [k \in 1..Count(text, "\n") |->
        SubSeq(text, LineBreak(text, k - 1) + 1, LineBreak(text, k) - 1)]

Unindented(line) == SelectSeq(line, LAMBDA c : c # "\t")

Indent(line) == Count(line, "\t")

ClassFooLine ==
    <<"c", "l", "a", "s", "s", " ", "F", "o", "o">>

BarLine ==
    <<"i", "n", "t", "3", "2", " ", "B", "a", "r", " ", "=", " ", "0", ";">>

ClassFooText ==
    <<"c", "l", "a", "s", "s", " ", "F", "o", "o", "\n", "{", "\n", "\t",
      "i", "n", "t", "3", "2", " ", "B", "a", "r", " ", "=", " ", "0", ";",
      "\n", "}", ";", "\n">>

\* the state after StartClass("Foo"), Variable("int32", "Bar", "0"),
\* EndStruct() on a new document, told by the lines emitted before EndStruct
ClassFooEmitted ==
    /\ nOps = 3
    /\ lastOp = "EndStruct"
    /\ args.name = <<>>
    /\ pre.BlockCount = 1
    /\ LET before == TextLines(pre.FileContent)
       IN  /\ Len(before) = 3
           /\ Unindented(before[1]) = ClassFooLine
           /\ Unindented(before[2]) = <<"{">>
           /\ Unindented(before[3]) = BarLine

\* the lines of the buffer that hold a brace
BraceLines(brace) ==
    {i \in DOMAIN TextLines(FileContent) :
        Unindented(TextLines(FileContent)[i]) \in {<<brace>>, <<brace, ";">>}}

\* C14 as stated: the text has the class header line, one opening and one
\* closing brace line each indented one level deeper than the header, and the
\* property line int32 Bar = 0; and the document ends with no open block at
\* indent depth 0.
C14_BracesDeeperThanHeader ==
    ClassFooEmitted =>
        LET lines == TextLines(FileContent)
        IN  /\ lines[1] = ClassFooLine
            /\ \E i \in DOMAIN lines : Unindented(lines[i]) = BarLine
            /\ Cardinality(BraceLines("{")) = 1
            /\ Cardinality(BraceLines("}")) = 1
            /\ \A i \in BraceLines("{") \cup BraceLines("}") :
                  Indent(lines[i]) = Indent(lines[1]) + 1
            /\ BlockCount = 0
            /\ IndentCount = 0

\* C14 amended: the text is the class header line, an opening brace line at
\* the indentation of the header, the property line int32 Bar = 0; one level
\* deeper, and the closing line }; at the indentation of the header; the
\* document ends with no open block at indent depth 0.
C14_BracesAtHeaderLevel ==
    ClassFooEmitted =>
        LET lines == TextLines(FileContent)
        IN  /\ FileContent = ClassFooText
            /\ Cardinality(BraceLines("{")) = 1
            /\ Cardinality(BraceLines("}")) = 1
            /\ \A i \in BraceLines("{") \cup BraceLines("}") :
                  Indent(lines[i]) = Indent(lines[1])
            /\ \A i \in DOMAIN lines :
                  Unindented(lines[i]) = BarLine => Indent(lines[i]) = Indent(lines[1]) + 1
            /\ BlockCount = 0
            /\ IndentCount = 0

C14_Witness ==
    /\ ClassFooEmitted
    /\ FileContent = ClassFooText
    /\ BlockCount = 0
    /\ IndentCount = 0


-----------------------------------------------------------------------------
(* Indent depth against open-block count, checked under SpecBlocks *)

\* C15: as long as every call so far was a Line, a StartBlock(true) or an
\* EndBlock(true, _), unmatched EndBlock calls included, the indent depth
\* equals the open-block count; the two differ only after a StartBlock(false),
\* an EndBlock(false, _) or a direct PushIndent/PopIndent.
C15_IndentFollowsBlocks ==
    /\ ~suppressed => IndentCount = BlockCount
    /\ IndentCount # BlockCount => suppressed

\* an unmatched EndBlock(true, _), then a block opened and a block inside it
C15_Witness ==
    /\ ~suppressed
    /\ lastOp = "StartBlock"
    /\ Len(Log) > 0
    /\ Log[1] = "Block end missmatch!"
    /\ BlockCount = 2
    /\ IndentCount = 2


-----------------------------------------------------------------------------
(* Repeated commits, checked under Spec *)

\* the last operation was a WriteToFile that came straight after a WriteToFile
\* which ran to the end of the function and left the document's text in the
\* target file
SecondCommit ==
    /\ Committed
    /\ pre.lastOp = "WriteToFile"
    /\ pre.result = "Written"
    /\ pre.FileContent = FileContent
    /\ TargetBefore = File(FileContent)

\* C16: a commit that follows a successful commit of the same document to the
\* same path finds the same text on disk and is a no-op: it returns Skipped
\* and makes no write, no CheckOutFile and no MarkFileForAdd call.
C16_SecondCommitSkipped ==
    SecondCommit
    => /\ result = "Skipped"
       /\ CallsTo("SaveStringToFile") = {}
       /\ CallsTo("CheckOutFile") = {}
       /\ CallsTo("MarkFileForAdd") = {}
       /\ disk = pre.disk


-----------------------------------------------------------------------------
(* What each operation may change, checked under SpecFrame *)

EmissionOps ==
    {"Line", "Comment", "Variable", "StartBlock", "EndBlock", "StartClass",
     "StartStruct", "EndStruct"}

\* the step is an emission operation: files, source control setup and the
\* record of external calls stay as they were
EmissionFrame ==
    lastOp' \in EmissionOps
    => UNCHANGED <<disk, scEnabled, usesCheckout, calls, result, Path>>

\* the step is a WriteToFile: every file but the one at Path stays as it was,
\* every call that names a file names Path, and the generator object stays
\* as it was
CommitFrame ==
    lastOp' = "WriteToFile"
    => /\ \A p \in Paths \ {Path} : disk'[p] = disk[p]
       /\ \A i \in DOMAIN calls' : calls'[i].path \in {Path, ""}
       /\ UNCHANGED <<FileContent, IndentCount, BlockCount, Path, scEnabled,
                      usesCheckout>>

\* C17: the files are changed only by WriteToFile: every emission operation
\* leaves the file system and the source control state unchanged, and
\* WriteToFile changes at most the file at the document's own path and leaves
\* the buffer, the indent depth and the open-block count unchanged.
C17_DiskOnlyInCommit == [][EmissionFrame /\ CommitFrame]_vars

\* a class header written over the other content of the target file, next to
\* a file at the other path
C17_Witness ==
    /\ Committed
    /\ pre.lastOp = "StartClass"
    /\ TargetBefore.exists
    /\ disk[Path] = File(FileContent)
    /\ disk[Path] # TargetBefore
    /\ \E p \in Paths \ {Path} : disk[p].exists /\ disk[p] = pre.disk[p]
    /\ BlockCount = 1


-----------------------------------------------------------------------------
(* Commits with open blocks, checked under Spec *)

OpenBlocksWarning == "Block count is not 0 when writing to file!"

\* what the last WriteToFile would have done had the open-block count been 0
AsBalanced ==
    WriteToFile([Self EXCEPT !.BlockCount = 0, !.Log = SubSeq(Log, 1, pre.logLen)],
                Path, pre.disk, scEnabled, usesCheckout, args.readOk,
                args.writeOk)

\* C18: a commit of a non-empty document with open blocks logs one warning
\* and then does what it does for a balanced document: the same files, the
\* same external calls in the same order, the same return.
C18_OpenBlocksWarnOnly ==
    (/\ Committed
     /\ FileContent # <<>>
     /\ BlockCount > 0)
    => /\ Len(Log) = pre.logLen + 1
       /\ Log[Len(Log)] = OpenBlocksWarning
       /\ Len(AsBalanced.Log) = pre.logLen
       /\ disk = AsBalanced.disk
       /\ calls = AsBalanced.calls
       /\ result = AsBalanced.result

\* two open blocks, written over a file with other content
C18_Witness ==
    /\ Committed
    /\ BlockCount = 2
    /\ TargetBefore.exists
    /\ Log = <<OpenBlocksWarning>>
    /\ result = "Written"
    /\ disk[Path] = File(FileContent)
    /\ disk # pre.disk


-----------------------------------------------------------------------------
(* Indentation of the delimiter lines, checked under SpecBlocks *)

\* the last call was an EndBlock(true, _) that closed a block, and every
\* block call so far was a StartBlock(true) or an EndBlock(true, _), with no
\* direct PushIndent/PopIndent
IndentedBlockClosed ==
    /\ lastOp = "EndBlock"
    /\ closed.valid
    /\ ~suppressed

\* C19: in a nested sequence of StartBlock(true) / EndBlock(true, _) calls the
\* closing delimiter line has the indentation of the opening delimiter line
\* of the block it closes, which is the indent depth at the StartBlock, and
\* every line between the two is at least one unit deeper.
C19_DelimitersAligned ==
    IndentedBlockClosed
    => LET lines == TextLines(FileContent)
           opening == closed.line
           closing == Len(lines)
       IN  /\ opening < closing
           /\ Unindented(lines[opening]) = <<"{">>
           /\ Unindented(lines[closing]) \in {<<"}">>, <<"}", ";">>}
           /\ Indent(lines[opening]) = closed.depth
           /\ Indent(lines[closing]) = Indent(lines[opening])
           /\ \A i \in (opening + 1)..(closing - 1) :
                  Indent(lines[i]) >= Indent(lines[opening]) + 1

\* a block in a block with a line inside, closed one after the other
C19_Witness ==
    /\ IndentedBlockClosed
    /\ open = <<>>
    /\ nOps = 5
    /\ closed.line = 1
    /\ Count(FileContent, "{") = 2
    /\ Count(FileContent, "x") = 1
    /\ Count(FileContent, "}") = 2
    /\ Indent(TextLines(FileContent)[3]) = 2


-----------------------------------------------------------------------------
(* Commits with source control disabled, checked under Spec *)

\* positions in calls of the calls of fn, on any path or on none
CallsOf(fn) == {i \in DOMAIN calls : calls[i].fn = fn}

\* what the last WriteToFile does under another source control setup
UnderSetup(enabled, uses) ==
    WriteToFile([Self EXCEPT !.Log = SubSeq(Log, 1, pre.logLen)], Path, pre.disk,
                enabled, uses, args.readOk, args.writeOk)

\* C20: with source control disabled a commit makes no CheckOutFile, no
\* MarkFileForAdd and no UsesCheckout call, whether the file is missing,
\* identical or different and whether the write succeeds or fails; and under
\* any source control setup the commit takes the same return and leaves the
\* same files.
C20_DisabledNoSourceControl ==
    Committed
    => /\ ~scEnabled
          => /\ CallsOf("CheckOutFile") = {}
             /\ CallsOf("MarkFileForAdd") = {}
             /\ CallsOf("UsesCheckout") = {}
       /\ \A enabled \in BOOLEAN, uses \in BOOLEAN :
             /\ UnderSetup(enabled, uses).result = result
             /\ UnderSetup(enabled, uses).disk = disk

\* a new file written with source control disabled
C20_Witness ==
    /\ Committed
    /\ ~scEnabled
    /\ ~TargetBefore.exists
    /\ args.writeOk
    /\ result = "Written"
    /\ disk[Path] = File(FileContent)
    /\ calls = <<Call("FileExists", Path), Call("IsEnabled", ""),
                 Call("SaveStringToFile", Path), Call("IsEnabled", "")>>

====
